---- MODULE Spec2Model ----
(***************************************************************************)
(* Model of kernel/dma/direct.c: DMA operations that map physical memory   *)
(* directly, without an IOMMU.                                             *)
(*                                                                         *)
(* Addresses are scaled: u64 / dma_addr_t / phys_addr_t are AddrBits wide  *)
(* (arithmetic is modulo 2^AddrBits), the "32-bit" mask is Bits32 wide and *)
(* zone_dma_bits and PAGE_SHIFT are scaled with them.                      *)
(***************************************************************************)
EXTENDS Integers, Sequences, FiniteSets, TLC

VARIABLES
    cfg,        \* build / boot configuration (IS_ENABLED(...), sme_me_mask)
    dev,        \* struct device fields read by this file
    pc,         \* position inside dma_direct_alloc_pages / dma_direct_free_pages
    call,       \* arguments of the allocate call in progress
    gfp,        \* zone bits of gfp inside __dma_direct_alloc_pages
    phys_limit, \* phys_limit of __dma_direct_alloc_pages
    page,       \* struct page * (as its physical address), NoPage for NULL
    alog,       \* calls made to the page allocators during the allocate call
    ret,        \* what dma_direct_alloc_pages returned
    mem,        \* effects of allocate on the region (zeroing, decryption, alias)
    fr,         \* effects of dma_direct_free_pages
    sgl,        \* the scatterlist (or the one buffer) of the streaming mapping
    mstate,     \* "unmapped", "sg" (a mapped list) or "single" (a mapped buffer)
    slots,      \* the bounce pool: slot -> in use
    slog,       \* calls made by the last streaming operation, in order
    sret,       \* the last streaming operation and what it returned
    bad_release,\* a bounce slot was released that was not held
    mm,         \* the last dma_direct_mmap call and what it did
    chk         \* the last dma_coherent_ok evaluation: arguments and answer

mapVars == <<sgl, mstate, slots, slog, sret, bad_release>>

vars == <<cfg, dev, pc, call, gfp, phys_limit, page, alog, ret, mem, fr,
          sgl, mstate, slots, slog, sret, bad_release, mm, chk>>

(***************************************************************************)
(* Scaled machine parameters.                                              *)
(***************************************************************************)
AddrBits == 5
PAGE_SHIFT == 1
zone_dma_bits == 2
RamPages == 6
MaxSize == 3
MaxSegs == 3
NSlots == 2

RECURSIVE Pow2(_)
Pow2(n) == IF n = 0 THEN 1 ELSE 2 * Pow2(n - 1)

U64 == Pow2(AddrBits)
Bits64 == AddrBits
Bits32 == AddrBits - 2
PAGE_SIZE == Pow2(PAGE_SHIFT)

Wrap(x) == x % U64

DMA_BIT_MASK(n) == IF n = Bits64 THEN U64 - 1 ELSE Pow2(n) - 1

Min(a, b) == IF a <= b THEN a ELSE b

min_not_zero(x, y) == IF x = 0 THEN y ELSE IF y = 0 THEN x ELSE Min(x, y)

PAGE_ALIGN(size) == Wrap(((size + PAGE_SIZE - 1) \div PAGE_SIZE) * PAGE_SIZE)

RECURSIVE OrderFor(_, _)
OrderFor(pages, o) == IF Pow2(o) >= pages THEN o ELSE OrderFor(pages, o + 1)

get_order(size) == OrderFor((size + PAGE_SIZE - 1) \div PAGE_SIZE, 0)

(***************************************************************************)
(* Physical memory.  RAM is the page range [RamBase, RamTop); NoPage is    *)
(* the NULL struct page pointer.                                           *)
(***************************************************************************)
NoPage == -1
RamBase == PAGE_SIZE
RamTop == RamBase + RamPages * PAGE_SIZE
HighMemStart == RamTop - 2 * PAGE_SIZE
SmeBit == Pow2(AddrBits - 1)

Pages == {p \in RamBase..(RamTop - 1) : p % PAGE_SIZE = 0}

\* A block of 2^order pages, naturally aligned, inside RAM.
Blocks(alloc_size) ==
    {p \in Pages : /\ p % (PAGE_SIZE * Pow2(get_order(alloc_size))) = 0
                   /\ p + alloc_size <= RamTop}

PageHighMem(p) == cfg.HIGHMEM /\ p >= HighMemStart

(***************************************************************************)
(* Address translation (include/linux/dma-direct.h, mem_encrypt.h).        *)
(***************************************************************************)
sme_set(a) == IF cfg.sme_me_mask # 0 /\ a < SmeBit THEN a + SmeBit ELSE a
sme_clr(a) == IF cfg.sme_me_mask # 0 /\ a >= SmeBit THEN a - SmeBit ELSE a

bus_offset(d) == d.dma_pfn_offset * PAGE_SIZE

__phys_to_dma(d, paddr) == Wrap(paddr - bus_offset(d) + U64)
__dma_to_phys(d, daddr) == Wrap(daddr + bus_offset(d))
phys_to_dma(d, paddr) == sme_set(__phys_to_dma(d, paddr))
dma_to_phys(d, daddr) == sme_clr(__dma_to_phys(d, daddr))

force_dma_unencrypted(d) == d.unencrypted
dev_is_dma_coherent(d) == d.coherent

phys_to_dma_direct(d, phys) ==
    IF force_dma_unencrypted(d) THEN __phys_to_dma(d, phys)
    ELSE phys_to_dma(d, phys)

dma_direct_to_page(d, dma_addr) ==
    (dma_to_phys(d, dma_addr) \div PAGE_SIZE) * PAGE_SIZE

(***************************************************************************)
(* Zone selection and the coherent reachability check.                     *)
(***************************************************************************)
GFP_NONE == "0"
GFP_DMA32 == "GFP_DMA32"
GFP_DMA == "GFP_DMA"

dma_limit(d, dma_mask) == min_not_zero(dma_mask, d.bus_dma_limit)

optimal_phys_limit(d, dma_mask) ==
    IF force_dma_unencrypted(d) THEN __dma_to_phys(d, dma_limit(d, dma_mask))
    ELSE dma_to_phys(d, dma_limit(d, dma_mask))

\* __dma_direct_optimal_gfp_mask with strict comparisons.
optimal_gfp_mask_strict(d, dma_mask) ==
    IF optimal_phys_limit(d, dma_mask) < DMA_BIT_MASK(zone_dma_bits) THEN GFP_DMA
    ELSE IF optimal_phys_limit(d, dma_mask) < DMA_BIT_MASK(Bits32) THEN GFP_DMA32
    ELSE GFP_NONE

__dma_direct_optimal_gfp_mask(d, dma_mask) ==
    IF optimal_phys_limit(d, dma_mask) <= DMA_BIT_MASK(zone_dma_bits) THEN GFP_DMA
    ELSE IF optimal_phys_limit(d, dma_mask) <= DMA_BIT_MASK(Bits32) THEN GFP_DMA32
    ELSE GFP_NONE

\* dma_coherent_ok with min() in place of min_not_zero().
dma_coherent_ok_min(d, phys, size) ==
    Wrap(phys_to_dma_direct(d, phys) + size - 1 + U64) <=
        Min(d.coherent_dma_mask, d.bus_dma_limit)

dma_coherent_ok(d, phys, size) ==
    Wrap(phys_to_dma_direct(d, phys) + size - 1 + U64) <=
        min_not_zero(d.coherent_dma_mask, d.bus_dma_limit)

dma_alloc_need_uncached(d, attrs) ==
    ~dev_is_dma_coherent(d) /\ ~attrs.NO_KERNEL_MAPPING

(***************************************************************************)
(* The page allocators, as this file sees them.  Each returns NULL or a    *)
(* block of PAGE_ALIGN(size) bytes; which block is the allocator's choice. *)
(***************************************************************************)
\* cma_alloc ignores the zone bits of gfp and may hand out highmem pages.
dma_alloc_contiguous(g, alloc_size) == Blocks(alloc_size)

\* GFP_DMA and GFP_DMA32 are no-ops without the corresponding zones; the
\* caller passes no __GFP_HIGHMEM, so the block is lowmem.
alloc_pages_node(g, alloc_size) ==
    {p \in Blocks(alloc_size) :
        /\ ~PageHighMem(p + alloc_size - 1)
        /\ (g = GFP_DMA /\ cfg.ZONE_DMA) =>
               p + alloc_size - 1 <= DMA_BIT_MASK(zone_dma_bits)
        /\ (g = GFP_DMA32 /\ cfg.ZONE_DMA32) =>
               p + alloc_size - 1 <= DMA_BIT_MASK(Bits32)}

\* The atomic pool is carved out at boot; it may lie anywhere in RAM.
dma_alloc_from_pool(alloc_size) == Blocks(alloc_size)

Ev(op, g, size, p) == [op |-> op, gfp |-> g, size |-> size, page |-> p]

NoRet == [kind |-> "none", page |-> NoPage, dma_handle |-> 0]
NoMem == [zeroed |-> 0, decrypted |-> 0, alias |-> FALSE, prep |-> 0]
NoFree == [encrypted |-> 0, vunmap |-> FALSE, to |-> "none", page |-> NoPage,
           size |-> 0]

NoMmap == [called |-> FALSE, size |-> 0, pgoff |-> 0, user_count |-> 0,
           handled |-> FALSE, ret |-> "none", remap |-> FALSE, pfn |-> 0,
           len |-> 0]

NoChk == [called |-> FALSE, phys |-> 0, size |-> 0, result |-> FALSE]

dma_handle_of(d, p) ==
    IF force_dma_unencrypted(d) THEN __phys_to_dma(d, p) ELSE phys_to_dma(d, p)

(***************************************************************************)
(* dma_direct_alloc_pages, entry: the atomic-pool path, or the call of     *)
(* __dma_direct_alloc_pages up to the choice of the first zone.            *)
(***************************************************************************)
AllocStart ==
    /\ pc = "idle"
    /\ \E size \in 1..MaxSize, nkm \in BOOLEAN, blocking \in BOOLEAN :
        LET attrs == [NO_KERNEL_MAPPING |-> nkm]
            c == [size |-> size, attrs |-> attrs, blocking |-> blocking]
        IN  /\ call' = c
            /\ IF cfg.DMA_DIRECT_REMAP /\ dma_alloc_need_uncached(dev, attrs)
                  /\ ~blocking
               THEN \E p \in dma_alloc_from_pool(PAGE_ALIGN(size)) \cup {NoPage} :
                      /\ alog' = <<Ev("dma_alloc_from_pool", GFP_NONE,
                                      PAGE_ALIGN(size), p)>>
                      /\ page' = p
                      /\ pc' = "done"
                      /\ IF p = NoPage
                         THEN /\ ret' = [NoRet EXCEPT !.kind = "null"]
                              /\ mem' = NoMem
                         ELSE /\ ret' = [kind |-> "pool", page |-> p,
                                         dma_handle |-> dma_handle_of(dev, p)]
                              /\ mem' = [NoMem EXCEPT !.zeroed = PAGE_ALIGN(size)]
                      /\ UNCHANGED <<gfp, phys_limit>>
               ELSE /\ gfp' = __dma_direct_optimal_gfp_mask(dev, dev.coherent_dma_mask)
                    /\ phys_limit' = optimal_phys_limit(dev, dev.coherent_dma_mask)
                    /\ pc' = "contig"
                    /\ alog' = <<>>
                    /\ page' = NoPage
                    /\ ret' = NoRet
                    /\ mem' = NoMem
    /\ UNCHANGED <<cfg, dev, fr>>
    /\ UNCHANGED <<mapVars, mm, chk>>

(***************************************************************************)
(* __dma_direct_alloc_pages, lines 106-110: the contiguous pool.           *)
(***************************************************************************)
AllocContiguous ==
    /\ pc = "contig"
    /\ LET alloc_size == PAGE_ALIGN(call.size) IN
       \E p \in dma_alloc_contiguous(gfp, alloc_size) \cup {NoPage} :
         LET log1 == Append(alog, Ev("dma_alloc_contiguous", gfp, alloc_size, p))
         IN  IF p # NoPage /\ ~dma_coherent_ok(dev, p, call.size)
             THEN /\ alog' = Append(log1, Ev("dma_free_contiguous", gfp,
                                             alloc_size, p))
                  /\ page' = NoPage
             ELSE /\ alog' = log1
                  /\ page' = p
    /\ pc' = "again"
    /\ UNCHANGED <<cfg, dev, call, gfp, phys_limit, ret, mem, fr>>
    /\ UNCHANGED <<mapVars, mm, chk>>

(***************************************************************************)
(* __dma_direct_alloc_pages, lines 111-131: one pass from the label        *)
(* "again" to the next "goto again" or to the return.                      *)
(***************************************************************************)
\* ZoneDmaRetry without the test that GFP_DMA is not yet set.
ZoneDmaRetry_always(g) == cfg.ZONE_DMA

\* Line 125: the last step of the ladder is taken once.
ZoneDmaRetry(g) == cfg.ZONE_DMA /\ g # GFP_DMA

\* FallbackGfp with the two zone steps taken in the opposite order.
FallbackGfp_widen(g, limit) ==
    IF cfg.ZONE_DMA /\ g = GFP_NONE THEN GFP_DMA
    ELSE IF cfg.ZONE_DMA32 /\ g = GFP_DMA THEN GFP_DMA32
    ELSE "stop"

\* The zone bits after an unreachable result, or "stop" when no retry is made.
FallbackGfp(g, limit) ==
    IF cfg.ZONE_DMA32 /\ limit < DMA_BIT_MASK(Bits64) /\ g = GFP_NONE
    THEN GFP_DMA32
    ELSE IF ZoneDmaRetry(g) THEN GFP_DMA
    ELSE "stop"

\* RetryLabel placed before the contiguous attempt of line 106.
RetryLabel_contig == "contig"

\* Lines 111, 122, 127: where "goto again" resumes.
RetryLabel == "again"

AllocAgain ==
    /\ pc = "again"
    /\ LET alloc_size == PAGE_ALIGN(call.size) IN
       \E p \in (IF page = NoPage
                 THEN alloc_pages_node(gfp, alloc_size) \cup {NoPage}
                 ELSE {page}) :
         LET log1 == IF page = NoPage
                     THEN Append(alog, Ev("alloc_pages_node", gfp, alloc_size, p))
                     ELSE alog
         IN  IF p # NoPage /\ ~dma_coherent_ok(dev, p, call.size)
             THEN /\ alog' = Append(log1, Ev("dma_free_contiguous", gfp,
                                             call.size, p))
                  /\ page' = NoPage
                  /\ IF FallbackGfp(gfp, phys_limit) = "stop"
                     THEN pc' = "post" /\ gfp' = gfp
                     ELSE pc' = RetryLabel /\ gfp' = FallbackGfp(gfp, phys_limit)
             ELSE /\ alog' = log1
                  /\ page' = p
                  /\ pc' = "post"
                  /\ gfp' = gfp
    /\ UNCHANGED <<cfg, dev, call, phys_limit, ret, mem, fr>>
    /\ UNCHANGED <<mapVars, mm, chk>>

(***************************************************************************)
(* dma_direct_alloc_pages, lines 150-210: what is done with the page that  *)
(* __dma_direct_alloc_pages returned.                                      *)
(***************************************************************************)
\* Lines 163-165: the page gets a remapped (vmap) alias.
NeedsRemap(d, attrs, p) ==
    \/ cfg.DMA_DIRECT_REMAP /\ dma_alloc_need_uncached(d, attrs)
    \/ cfg.DMA_REMAP /\ PageHighMem(p)

\* RejectHighMem without the PageHighMem test.
RejectHighMem_never(p) == FALSE

\* Line 182: a highmem page that got no alias is rejected.
RejectHighMem(p) == PageHighMem(p)

\* Bytes cleared by the memset of lines 178 and 198.
ZeroedBytes(size) == size

\* Pages passed to set_memory_decrypted at line 196 (0: not called).
DecryptedPages(d, size) ==
    IF force_dma_unencrypted(d) THEN Pow2(get_order(size)) ELSE 0

AllocPost ==
    /\ pc = "post"
    /\ pc' = "done"
    /\ LET size == call.size
           attrs == call.attrs
           fail == [NoRet EXCEPT !.kind = "null"]
           done(kind) == [kind |-> kind, page |-> page,
                          dma_handle |-> dma_handle_of(dev, page)]
       IN
       IF page = NoPage
       THEN ret' = fail /\ UNCHANGED <<mem, alog>>
       ELSE IF attrs.NO_KERNEL_MAPPING /\ ~force_dma_unencrypted(dev)
       THEN /\ ret' = done("cookie")
            /\ mem' = [mem EXCEPT !.prep = IF PageHighMem(page) THEN 0 ELSE size]
            /\ UNCHANGED alog
       ELSE IF NeedsRemap(dev, attrs, page)
       THEN \E ok \in BOOLEAN :
              IF ok
              THEN /\ ret' = done("vmap")
                   /\ mem' = [mem EXCEPT !.prep = PAGE_ALIGN(size),
                                         !.alias = TRUE,
                                         !.zeroed = ZeroedBytes(size)]
                   /\ UNCHANGED alog
              ELSE /\ ret' = fail
                   /\ mem' = [mem EXCEPT !.prep = PAGE_ALIGN(size)]
                   /\ alog' = Append(alog, Ev("dma_free_contiguous", gfp,
                                              size, page))
       ELSE IF RejectHighMem(page)
       THEN /\ ret' = fail
            /\ alog' = Append(alog, Ev("dma_free_contiguous", gfp, size, page))
            /\ UNCHANGED mem
       ELSE /\ ret' = done(IF cfg.ARCH_HAS_UNCACHED_SEGMENT
                              /\ dma_alloc_need_uncached(dev, attrs)
                           THEN "uncached" ELSE "lowmem")
            /\ mem' = [mem EXCEPT
                         !.decrypted = DecryptedPages(dev, size),
                         !.zeroed = ZeroedBytes(size),
                         !.prep = IF cfg.ARCH_HAS_UNCACHED_SEGMENT
                                     /\ dma_alloc_need_uncached(dev, attrs)
                                  THEN size ELSE 0]
            /\ UNCHANGED alog
    /\ UNCHANGED <<cfg, dev, call, gfp, phys_limit, page, fr>>
    /\ UNCHANGED <<mapVars, mm, chk>>

(***************************************************************************)
(* dma_direct_free_pages, called with the device, size and attrs of the    *)
(* allocation and the cpu address and dma handle that it returned.         *)
(***************************************************************************)
dma_free_from_pool(r) == r.kind = "pool"
is_vmalloc_addr(r) == r.kind \in {"vmap", "pool"}

\* Pages passed to set_memory_encrypted at line 230 (0: not called).
EncryptedPages(d, size) ==
    IF force_dma_unencrypted(d) THEN Pow2(get_order(size)) ELSE 0

Free ==
    /\ pc = "done"
    /\ ret.kind \notin {"null", "none"}
    /\ pc' = "freed"
    /\ LET size == call.size
           attrs == call.attrs
       IN
       IF attrs.NO_KERNEL_MAPPING /\ ~force_dma_unencrypted(dev)
       THEN fr' = [NoFree EXCEPT !.to = "contiguous", !.page = ret.page,
                                 !.size = size]
       ELSE IF cfg.DMA_DIRECT_REMAP /\ dma_free_from_pool(ret)
       THEN fr' = [NoFree EXCEPT !.to = "pool", !.page = ret.page,
                                 !.size = PAGE_ALIGN(size)]
       ELSE fr' = [encrypted |-> EncryptedPages(dev, size),
                   vunmap |-> cfg.DMA_REMAP /\ is_vmalloc_addr(ret),
                   to |-> "contiguous",
                   page |-> dma_direct_to_page(dev, ret.dma_handle),
                   size |-> size]
    /\ UNCHANGED <<cfg, dev, call, gfp, phys_limit, page, alog, ret, mem>>
    /\ UNCHANGED <<mapVars, mm, chk>>

(***************************************************************************)
(* The allocator's specification.                                          *)
(***************************************************************************)
Masks == {DMA_BIT_MASK(zone_dma_bits), DMA_BIT_MASK(Bits32), DMA_BIT_MASK(Bits64)}
BusLimits == {0, HighMemStart - 1}

Configs ==
    {c \in [ZONE_DMA : BOOLEAN, ZONE_DMA32 : BOOLEAN, DMA_REMAP : BOOLEAN,
            DMA_DIRECT_REMAP : BOOLEAN, ARCH_HAS_UNCACHED_SEGMENT : BOOLEAN,
            HIGHMEM : BOOLEAN, MMU : BOOLEAN, sme_me_mask : {0, SmeBit},
            swiotlb_force : {"SWIOTLB_NORMAL"}] :
        \* Kconfig: DMA_DIRECT_REMAP selects DMA_REMAP
        /\ c.DMA_DIRECT_REMAP => c.DMA_REMAP
        /\ c.MMU}

\* dma_direct_supported: the masks a device may set.
max_pfn == RamTop \div PAGE_SIZE

dma_direct_supported(d, mask) ==
    LET zone_mask == IF cfg.ZONE_DMA THEN DMA_BIT_MASK(zone_dma_bits)
                     ELSE DMA_BIT_MASK(Bits32)
        min_mask == Min(zone_mask, (max_pfn - 1) * PAGE_SIZE)
    IN  mask >= __phys_to_dma(d, min_mask)

Devices ==
    [coherent_dma_mask : Masks, dma_mask : {DMA_BIT_MASK(Bits64)},
     bus_dma_limit : BusLimits, dma_pfn_offset : {0, 1},
     unencrypted : BOOLEAN, coherent : BOOLEAN]

Init ==
    /\ cfg \in Configs
    /\ dev \in Devices
    /\ dma_direct_supported(dev, dev.coherent_dma_mask)
    /\ pc = "idle"
    /\ call = [size |-> 1, attrs |-> [NO_KERNEL_MAPPING |-> FALSE],
               blocking |-> TRUE]
    /\ gfp = GFP_NONE
    /\ phys_limit = 0
    /\ page = NoPage
    /\ alog = <<>>
    /\ ret = NoRet
    /\ mem = NoMem
    /\ fr = NoFree
    /\ sgl = <<>>
    /\ mstate = "unmapped"
    /\ slots = [s \in 1..NSlots |-> FALSE]
    /\ slog = <<>>
    /\ sret = [op |-> "none", ret |-> 0, nents |-> 0, skip |-> FALSE]
    /\ bad_release = FALSE
    /\ mm = NoMmap
    /\ chk = NoChk

Next ==
    \/ AllocStart
    \/ AllocContiguous
    \/ AllocAgain
    \/ AllocPost
    \/ Free

Spec == Init /\ [][Next]_vars

(***************************************************************************)
(* Streaming mappings.  The bounce pool (swiotlb) is the physical range    *)
(* [io_tlb_start, io_tlb_end), one slot per page; the caller's buffers lie *)
(* in RAM above it.                                                        *)
(***************************************************************************)
DMA_MAPPING_ERROR == U64 - 1
NoAddr == -1

io_tlb_start == RamBase
io_tlb_end == io_tlb_start + NSlots * PAGE_SIZE
SlotAddr(s) == io_tlb_start + (s - 1) * PAGE_SIZE
SlotOf(paddr) == ((paddr - io_tlb_start) \div PAGE_SIZE) + 1

is_swiotlb_buffer(paddr) == paddr >= io_tlb_start /\ paddr < io_tlb_end

dma_capable(d, addr, size) ==
    Wrap(addr + size - 1 + U64) <= min_not_zero(d.dma_mask, d.bus_dma_limit)

SEv(op, seg, addr) == [op |-> op, seg |-> seg, addr |-> addr]

St(sg, sl, lg, bad) == [sg |-> sg, slots |-> sl, log |-> lg, bad |-> bad]

FreeSlots(sl) == {s \in 1..NSlots : ~sl[s]}
LowestFree(sl) == CHOOSE s \in FreeSlots(sl) : \A t \in FreeSlots(sl) : s <= t

\* swiotlb_tbl_unmap_single: the slot holding paddr goes back to the pool.
swiotlb_tbl_unmap_single(seg, paddr, st) ==
    [st EXCEPT !.slots[SlotOf(paddr)] = FALSE,
               !.bad = st.bad \/ ~st.slots[SlotOf(paddr)],
               !.log = Append(st.log, SEv("swiotlb_tbl_unmap_single", seg, paddr))]

\* swiotlb_map: avail is the pool's answer (FALSE: no room for this request).
\* Result: ok, the slot's physical and bus address, and the pool afterwards.
swiotlb_map(d, seg, size, avail, st) ==
    IF cfg.swiotlb_force = "SWIOTLB_NO_FORCE" \/ ~avail \/ FreeSlots(st.slots) = {}
    THEN [ok |-> FALSE, phys |-> 0, dma_addr |-> 0, st |-> st]
    ELSE LET s == LowestFree(st.slots)
             taken == [st EXCEPT !.slots[s] = TRUE,
                                 !.log = Append(st.log,
                                     SEv("swiotlb_tbl_map_single", seg, SlotAddr(s)))]
             a == __phys_to_dma(d, SlotAddr(s))
         IN  IF ~dma_capable(d, a, size)
             THEN [ok |-> FALSE, phys |-> 0, dma_addr |-> 0,
                   st |-> swiotlb_tbl_unmap_single(seg, SlotAddr(s), taken)]
             ELSE [ok |-> TRUE, phys |-> SlotAddr(s), dma_addr |-> a, st |-> taken]

(***************************************************************************)
(* dma_direct_sync_single_for_device, dma_direct_sync_single_for_cpu.      *)
(***************************************************************************)
dma_direct_sync_single_for_device(d, seg, addr, st) ==
    LET paddr == dma_to_phys(d, addr)
        l1 == IF is_swiotlb_buffer(paddr)
              THEN Append(st.log, SEv("swiotlb_tbl_sync_single_for_device", seg, paddr))
              ELSE st.log
        l2 == IF ~dev_is_dma_coherent(d)
              THEN Append(l1, SEv("arch_sync_dma_for_device", seg, paddr))
              ELSE l1
    IN  [st EXCEPT !.log = l2]

dma_direct_sync_single_for_cpu(d, seg, addr, st) ==
    LET paddr == dma_to_phys(d, addr)
        l1 == IF ~dev_is_dma_coherent(d)
              THEN st.log \o <<SEv("arch_sync_dma_for_cpu", seg, paddr),
                               SEv("arch_sync_dma_for_cpu_all", seg, paddr)>>
              ELSE st.log
        l2 == IF is_swiotlb_buffer(paddr)
              THEN Append(l1, SEv("swiotlb_tbl_sync_single_for_cpu", seg, paddr))
              ELSE l1
    IN  [st EXCEPT !.log = l2]

(***************************************************************************)
(* dma_direct_sync_sg_for_device, dma_direct_sync_sg_for_cpu: the loop     *)
(* body for segment i, then the rest of the list.                          *)
(***************************************************************************)
\* sync_sg_for_device_body with the cache flush before the bounce copy.
sync_sg_for_device_body_swapped(d, i, st) ==
    LET paddr == dma_to_phys(d, st.sg[i].dma_address)
        l1 == IF ~dev_is_dma_coherent(d)
              THEN Append(st.log, SEv("arch_sync_dma_for_device", i, paddr))
              ELSE st.log
        l2 == IF is_swiotlb_buffer(paddr)
              THEN Append(l1, SEv("swiotlb_tbl_sync_single_for_device", i, paddr))
              ELSE l1
    IN  [st EXCEPT !.log = l2]

sync_sg_for_device_body(d, i, st) ==
    LET paddr == dma_to_phys(d, st.sg[i].dma_address)
        l1 == IF is_swiotlb_buffer(paddr)
              THEN Append(st.log, SEv("swiotlb_tbl_sync_single_for_device", i, paddr))
              ELSE st.log
        l2 == IF ~dev_is_dma_coherent(d)
              THEN Append(l1, SEv("arch_sync_dma_for_device", i, paddr))
              ELSE l1
    IN  [st EXCEPT !.log = l2]

RECURSIVE sync_sg_for_device_from(_, _, _, _)
sync_sg_for_device_from(d, i, nents, st) ==
    IF i > nents THEN st
    ELSE sync_sg_for_device_from(d, i + 1, nents, sync_sg_for_device_body(d, i, st))

dma_direct_sync_sg_for_device(d, nents, st) ==
    sync_sg_for_device_from(d, 1, nents, st)

\* sync_sg_for_cpu_body with the copy-back before the invalidation.
sync_sg_for_cpu_body_swapped(d, i, st) ==
    LET paddr == dma_to_phys(d, st.sg[i].dma_address)
        l1 == IF is_swiotlb_buffer(paddr)
              THEN Append(st.log, SEv("swiotlb_tbl_sync_single_for_cpu", i, paddr))
              ELSE st.log
        l2 == IF ~dev_is_dma_coherent(d)
              THEN Append(l1, SEv("arch_sync_dma_for_cpu", i, paddr))
              ELSE l1
    IN  [st EXCEPT !.log = l2]

sync_sg_for_cpu_body(d, i, st) ==
    LET paddr == dma_to_phys(d, st.sg[i].dma_address)
        l1 == IF ~dev_is_dma_coherent(d)
              THEN Append(st.log, SEv("arch_sync_dma_for_cpu", i, paddr))
              ELSE st.log
        l2 == IF is_swiotlb_buffer(paddr)
              THEN Append(l1, SEv("swiotlb_tbl_sync_single_for_cpu", i, paddr))
              ELSE l1
    IN  [st EXCEPT !.log = l2]

RECURSIVE sync_sg_for_cpu_from(_, _, _, _)
sync_sg_for_cpu_from(d, i, nents, st) ==
    IF i > nents THEN st
    ELSE sync_sg_for_cpu_from(d, i + 1, nents, sync_sg_for_cpu_body(d, i, st))

\* dma_direct_sync_sg_for_cpu with arch_sync_dma_for_cpu_all before the loop.
dma_direct_sync_sg_for_cpu_allfirst(d, nents, st) ==
    LET first == IF ~dev_is_dma_coherent(d)
                 THEN [st EXCEPT !.log = Append(st.log,
                                     SEv("arch_sync_dma_for_cpu_all", 0, 0))]
                 ELSE st
    IN  sync_sg_for_cpu_from(d, 1, nents, first)

dma_direct_sync_sg_for_cpu(d, nents, st) ==
    LET done == sync_sg_for_cpu_from(d, 1, nents, st)
    IN  IF ~dev_is_dma_coherent(d)
        THEN [done EXCEPT !.log = Append(done.log,
                              SEv("arch_sync_dma_for_cpu_all", 0, 0))]
        ELSE done

(***************************************************************************)
(* dma_direct_unmap_page, dma_direct_unmap_sg.                             *)
(***************************************************************************)
\* dma_direct_unmap_page where skipping the sync also skips the release.
dma_direct_unmap_page_skipall(d, seg, addr, skip, st) ==
    LET phys == dma_to_phys(d, addr)
        s0 == [st EXCEPT !.log = Append(st.log,
                                        SEv("dma_direct_unmap_page", seg, addr))]
        s1 == IF ~skip THEN dma_direct_sync_single_for_cpu(d, seg, addr, s0) ELSE s0
    IN  IF is_swiotlb_buffer(phys) /\ ~skip
        THEN swiotlb_tbl_unmap_single(seg, phys, s1)
        ELSE s1

dma_direct_unmap_page(d, seg, addr, skip, st) ==
    LET phys == dma_to_phys(d, addr)
        s0 == [st EXCEPT !.log = Append(st.log,
                                        SEv("dma_direct_unmap_page", seg, addr))]
        s1 == IF ~skip THEN dma_direct_sync_single_for_cpu(d, seg, addr, s0) ELSE s0
    IN  IF is_swiotlb_buffer(phys)
        THEN swiotlb_tbl_unmap_single(seg, phys, s1)
        ELSE s1

RECURSIVE unmap_sg_from(_, _, _, _, _)
unmap_sg_from(d, i, nents, skip, st) ==
    IF i > nents THEN st
    ELSE unmap_sg_from(d, i + 1, nents, skip,
             dma_direct_unmap_page(d, i, st.sg[i].dma_address, skip, st))

\* dma_direct_unmap_sg that stops one segment early.
dma_direct_unmap_sg_short(d, nents, skip, st) ==
    unmap_sg_from(d, 1, nents - 1, skip, st)

dma_direct_unmap_sg(d, nents, skip, st) == unmap_sg_from(d, 1, nents, skip, st)

(***************************************************************************)
(* dma_direct_map_page, dma_direct_map_sg.                                 *)
(***************************************************************************)
\* dma_direct_possible without the swiotlb_force test.
dma_direct_possible_noforce(d, dma_addr, size) == dma_capable(d, dma_addr, size)

dma_direct_possible(d, dma_addr, size) ==
    cfg.swiotlb_force # "SWIOTLB_FORCE" /\ dma_capable(d, dma_addr, size)

\* dma_direct_map_page that flushes the caller's buffer even when a bounce
\* slot was substituted.
dma_direct_map_page_syncorig(d, seg, pg, offset, size, skip, avail, st) ==
    LET phys == pg + offset
        dma_addr == phys_to_dma(d, phys)
        s0 == [st EXCEPT !.log = Append(st.log,
                                        SEv("dma_direct_map_page", seg, phys))]
        direct == dma_direct_possible(d, dma_addr, size)
        b == swiotlb_map(d, seg, size, avail, s0)
    IN  IF ~direct /\ ~b.ok
        THEN [addr |-> DMA_MAPPING_ERROR,
              st |-> [b.st EXCEPT !.log = Append(b.st.log,
                                                 SEv("report_addr", seg, dma_addr))]]
        ELSE LET addr2 == IF direct THEN dma_addr ELSE b.dma_addr
                 s1 == IF direct THEN s0 ELSE b.st
             IN  [addr |-> addr2,
                  st |-> IF ~dev_is_dma_coherent(d) /\ ~skip
                         THEN [s1 EXCEPT !.log = Append(s1.log,
                                   SEv("arch_sync_dma_for_device", seg, phys))]
                         ELSE s1]

\* Result: the returned bus address and the state afterwards.
dma_direct_map_page(d, seg, pg, offset, size, skip, avail, st) ==
    LET phys == pg + offset
        dma_addr == phys_to_dma(d, phys)
        s0 == [st EXCEPT !.log = Append(st.log,
                                        SEv("dma_direct_map_page", seg, phys))]
        direct == dma_direct_possible(d, dma_addr, size)
        b == swiotlb_map(d, seg, size, avail, s0)
    IN  IF ~direct /\ ~b.ok
        THEN [addr |-> DMA_MAPPING_ERROR,
              st |-> [b.st EXCEPT !.log = Append(b.st.log,
                                                 SEv("report_addr", seg, dma_addr))]]
        ELSE LET phys2 == IF direct THEN phys ELSE b.phys
                 addr2 == IF direct THEN dma_addr ELSE b.dma_addr
                 s1 == IF direct THEN s0 ELSE b.st
             IN  [addr |-> addr2,
                  st |-> IF ~dev_is_dma_coherent(d) /\ ~skip
                         THEN [s1 EXCEPT !.log = Append(s1.log,
                                   SEv("arch_sync_dma_for_device", seg, phys2))]
                         ELSE s1]

\* UnwindCount that includes the segment that failed.
UnwindCount_incl(i) == i

\* Segments unmapped at out_unmap when mapping segment i (1-based) failed.
UnwindCount(i) == i - 1

\* sg_dma_len_set that leaves the mapped length as it was.
sg_dma_len_keep(sg) == sg.dma_length

\* Line 398: sg_dma_len(sg) = sg->length.
sg_dma_len_set(sg) == sg.length

\* Result: the return value and the state afterwards.
RECURSIVE map_sg_from(_, _, _, _, _, _)
map_sg_from(d, i, nents, skip, avail, st) ==
    IF i > nents THEN [ret |-> nents, st |-> st]
    ELSE LET sg == st.sg[i]
             m == dma_direct_map_page(d, i, sg.page, sg.offset, sg.length,
                                      skip, avail[i], st)
             set == [m.st EXCEPT !.sg[i].dma_address = m.addr]
         IN  IF m.addr = DMA_MAPPING_ERROR
             THEN [ret |-> 0,
                   st |-> dma_direct_unmap_sg(d, UnwindCount(i), TRUE, set)]
             ELSE map_sg_from(d, i + 1, nents, skip, avail,
                      [set EXCEPT !.sg[i].dma_length = sg_dma_len_set(sg)])

dma_direct_map_sg(d, nents, skip, avail, st) ==
    map_sg_from(d, 1, nents, skip, avail, st)

(***************************************************************************)
(* The streaming operations as the driver calls them.  One behaviour is    *)
(* the life of one mapping: map, any number of syncs, unmap.               *)
(***************************************************************************)
BufPages == {io_tlb_end, RamTop - PAGE_SIZE}

SegChoices ==
    {[page |-> pg, offset |-> o, length |-> o + 1,
      dma_address |-> NoAddr, dma_length |-> 0] :
        pg \in BufPages, o \in {0, PAGE_SIZE - 1}}

Ret(op, r, nents, skip) == [op |-> op, ret |-> r, nents |-> nents, skip |-> skip]

Commit(st) ==
    /\ sgl' = st.sg
    /\ slots' = st.slots
    /\ slog' = st.log
    /\ bad_release' = st.bad

Fresh == mstate = "unmapped" /\ sret.op = "none"

MapSg ==
    /\ Fresh
    /\ \E nents \in 1..MaxSegs, skip \in BOOLEAN :
       \E sg \in [1..nents -> SegChoices], avail \in [1..nents -> BOOLEAN] :
         LET r == dma_direct_map_sg(dev, nents, skip, avail,
                                    St(sg, slots, <<>>, bad_release))
         IN  /\ Commit(r.st)
             /\ sret' = Ret("map_sg", r.ret, nents, skip)
             /\ mstate' = IF r.ret = 0 THEN "unmapped" ELSE "sg"
    /\ UNCHANGED <<cfg, dev, pc, call, gfp, phys_limit, page, alog, ret, mem, fr, mm, chk>>

UnmapSg ==
    /\ mstate = "sg"
    /\ \E skip \in BOOLEAN :
         /\ Commit(dma_direct_unmap_sg(dev, Len(sgl), skip,
                                       St(sgl, slots, <<>>, bad_release)))
         /\ sret' = Ret("unmap_sg", 0, Len(sgl), skip)
    /\ mstate' = "unmapped"
    /\ UNCHANGED <<cfg, dev, pc, call, gfp, phys_limit, page, alog, ret, mem, fr, mm, chk>>

SyncSgForCpu ==
    /\ mstate = "sg"
    /\ Commit(dma_direct_sync_sg_for_cpu(dev, Len(sgl),
                                         St(sgl, slots, <<>>, bad_release)))
    /\ sret' = Ret("sync_sg_for_cpu", 0, Len(sgl), FALSE)
    /\ UNCHANGED mstate
    /\ UNCHANGED <<cfg, dev, pc, call, gfp, phys_limit, page, alog, ret, mem, fr, mm, chk>>

SyncSgForDevice ==
    /\ mstate = "sg"
    /\ Commit(dma_direct_sync_sg_for_device(dev, Len(sgl),
                                            St(sgl, slots, <<>>, bad_release)))
    /\ sret' = Ret("sync_sg_for_device", 0, Len(sgl), FALSE)
    /\ UNCHANGED mstate
    /\ UNCHANGED <<cfg, dev, pc, call, gfp, phys_limit, page, alog, ret, mem, fr, mm, chk>>

MapPage ==
    /\ Fresh
    /\ \E seg \in SegChoices, skip \in BOOLEAN, avail \in BOOLEAN :
         LET m == dma_direct_map_page(dev, 1, seg.page, seg.offset, seg.length,
                                      skip, avail,
                                      St(<<seg>>, slots, <<>>, bad_release))
         IN  /\ Commit([m.st EXCEPT !.sg[1].dma_address = m.addr])
             /\ sret' = Ret("map_page", m.addr, 1, skip)
             /\ mstate' = IF m.addr = DMA_MAPPING_ERROR THEN "unmapped"
                          ELSE "single"
    /\ UNCHANGED <<cfg, dev, pc, call, gfp, phys_limit, page, alog, ret, mem, fr, mm, chk>>

UnmapPage ==
    /\ mstate = "single"
    /\ \E skip \in BOOLEAN :
         /\ Commit(dma_direct_unmap_page(dev, 1, sgl[1].dma_address, skip,
                                         St(sgl, slots, <<>>, bad_release)))
         /\ sret' = Ret("unmap_page", 0, 1, skip)
    /\ mstate' = "unmapped"
    /\ UNCHANGED <<cfg, dev, pc, call, gfp, phys_limit, page, alog, ret, mem, fr, mm, chk>>

SyncSingleForCpu ==
    /\ mstate = "single"
    /\ Commit(dma_direct_sync_single_for_cpu(dev, 1, sgl[1].dma_address,
                                             St(sgl, slots, <<>>, bad_release)))
    /\ sret' = Ret("sync_single_for_cpu", 0, 1, FALSE)
    /\ UNCHANGED mstate
    /\ UNCHANGED <<cfg, dev, pc, call, gfp, phys_limit, page, alog, ret, mem, fr, mm, chk>>

SyncSingleForDevice ==
    /\ mstate = "single"
    /\ Commit(dma_direct_sync_single_for_device(dev, 1, sgl[1].dma_address,
                                                St(sgl, slots, <<>>, bad_release)))
    /\ sret' = Ret("sync_single_for_device", 0, 1, FALSE)
    /\ UNCHANGED mstate
    /\ UNCHANGED <<cfg, dev, pc, call, gfp, phys_limit, page, alog, ret, mem, fr, mm, chk>>

MapConfigs ==
    [ZONE_DMA : {TRUE}, ZONE_DMA32 : {TRUE}, DMA_REMAP : {FALSE},
     DMA_DIRECT_REMAP : {FALSE}, ARCH_HAS_UNCACHED_SEGMENT : {FALSE},
     HIGHMEM : {FALSE}, MMU : {TRUE}, sme_me_mask : {0, SmeBit},
     swiotlb_force : {"SWIOTLB_NORMAL", "SWIOTLB_FORCE", "SWIOTLB_NO_FORCE"}]

MapDevices ==
    [coherent_dma_mask : {DMA_BIT_MASK(Bits64)}, dma_mask : Masks,
     bus_dma_limit : BusLimits, dma_pfn_offset : {0, 1},
     unencrypted : {FALSE}, coherent : BOOLEAN]

InitMap ==
    /\ cfg \in MapConfigs
    /\ dev \in MapDevices
    /\ dma_direct_supported(dev, dev.dma_mask)
    /\ pc = "idle"
    /\ call = [size |-> 1, attrs |-> [NO_KERNEL_MAPPING |-> FALSE],
               blocking |-> TRUE]
    /\ gfp = GFP_NONE
    /\ phys_limit = 0
    /\ page = NoPage
    /\ alog = <<>>
    /\ ret = NoRet
    /\ mem = NoMem
    /\ fr = NoFree
    /\ sgl = <<>>
    /\ mstate = "unmapped"
    /\ slots = [s \in 1..NSlots |-> FALSE]
    /\ slog = <<>>
    /\ sret = Ret("none", 0, 0, FALSE)
    /\ bad_release = FALSE
    /\ mm = NoMmap
    /\ chk = NoChk

NextMap ==
    \/ MapSg
    \/ UnmapSg
    \/ SyncSgForCpu
    \/ SyncSgForDevice
    \/ MapPage
    \/ UnmapPage
    \/ SyncSingleForCpu
    \/ SyncSingleForDevice

SpecMap == InitMap /\ [][NextMap]_vars

(***************************************************************************)
(* dma_direct_mmap.  unsigned long is AddrBits wide.  handled is the       *)
(* answer of dma_mmap_from_dev_coherent (the buffer belongs to the         *)
(* device's own coherent memory, which then maps it itself); remap_ok is   *)
(* the answer of remap_pfn_range.                                          *)
(***************************************************************************)
PHYS_PFN(paddr) == paddr \div PAGE_SIZE

\* MmapOutOfBounds written as a sum, which wraps.
MmapOutOfBounds_sum(pgoff, user_count, count) ==
    Wrap(pgoff + user_count) > count

\* Line 457: the requested range does not lie within the allocation.
MmapOutOfBounds(pgoff, user_count, count) ==
    pgoff >= count \/ user_count > Wrap(count - pgoff + U64)

Mmap ==
    /\ ~mm.called
    /\ \E size \in 1..(MaxSize * PAGE_SIZE), pgoff \in 0..(U64 - 1),
          user_count \in 0..(U64 - 1), pg \in Pages,
          handled \in BOOLEAN, remap_ok \in BOOLEAN :
         LET count == PAGE_ALIGN(size) \div PAGE_SIZE
             pfn == PHYS_PFN(dma_to_phys(dev, dma_handle_of(dev, pg)))
             m == [NoMmap EXCEPT !.called = TRUE, !.size = size,
                                 !.pgoff = pgoff, !.user_count = user_count,
                                 !.handled = handled]
         IN  IF ~cfg.MMU
             THEN mm' = [m EXCEPT !.ret = "-ENXIO", !.handled = FALSE]
             ELSE IF handled
             THEN \E r \in {"0", "-ENXIO"} : mm' = [m EXCEPT !.ret = r]
             ELSE IF MmapOutOfBounds(pgoff, user_count, count)
             THEN mm' = [m EXCEPT !.ret = "-ENXIO"]
             ELSE mm' = [m EXCEPT !.remap = TRUE,
                                  !.pfn = Wrap(pfn + pgoff),
                                  !.len = Wrap(user_count * PAGE_SIZE),
                                  !.ret = IF remap_ok THEN "0" ELSE "-EAGAIN"]
    /\ UNCHANGED <<cfg, dev, pc, call, gfp, phys_limit, page, alog, ret, mem, fr>>
    /\ UNCHANGED <<mapVars, chk>>

MmapConfigs ==
    [ZONE_DMA : {TRUE}, ZONE_DMA32 : {TRUE}, DMA_REMAP : {FALSE},
     DMA_DIRECT_REMAP : {FALSE}, ARCH_HAS_UNCACHED_SEGMENT : {FALSE},
     HIGHMEM : {FALSE}, MMU : BOOLEAN, sme_me_mask : {0, SmeBit},
     swiotlb_force : {"SWIOTLB_NORMAL"}]

MmapDevices ==
    [coherent_dma_mask : {DMA_BIT_MASK(Bits64)}, dma_mask : {DMA_BIT_MASK(Bits64)},
     bus_dma_limit : {0}, dma_pfn_offset : {0, 1},
     unencrypted : BOOLEAN, coherent : {TRUE}]

InitMmap ==
    /\ cfg \in MmapConfigs
    /\ dev \in MmapDevices
    /\ pc = "idle"
    /\ call = [size |-> 1, attrs |-> [NO_KERNEL_MAPPING |-> FALSE],
               blocking |-> TRUE]
    /\ gfp = GFP_NONE
    /\ phys_limit = 0
    /\ page = NoPage
    /\ alog = <<>>
    /\ ret = NoRet
    /\ mem = NoMem
    /\ fr = NoFree
    /\ sgl = <<>>
    /\ mstate = "unmapped"
    /\ slots = [s \in 1..NSlots |-> FALSE]
    /\ slog = <<>>
    /\ sret = Ret("none", 0, 0, FALSE)
    /\ bad_release = FALSE
    /\ mm = NoMmap
    /\ chk = NoChk

NextMmap == Mmap

SpecMmap == InitMmap /\ [][NextMmap]_vars

(***************************************************************************)
(* dma_coherent_ok as a function of the device, the physical address and   *)
(* the size: any address and size of the machine's width.                  *)
(***************************************************************************)
CoherentOk ==
    /\ ~chk.called
    /\ \E phys \in 0..(U64 - 1), size \in 0..MaxSize :
         chk' = [called |-> TRUE, phys |-> phys, size |-> size,
                 result |-> dma_coherent_ok(dev, phys, size)]
    /\ UNCHANGED <<cfg, dev, pc, call, gfp, phys_limit, page, alog, ret, mem, fr>>
    /\ UNCHANGED <<mapVars, mm>>

OkDevices ==
    [coherent_dma_mask : Masks, dma_mask : {DMA_BIT_MASK(Bits64)},
     bus_dma_limit : BusLimits \cup {DMA_BIT_MASK(zone_dma_bits)},
     dma_pfn_offset : {0, 1}, unencrypted : BOOLEAN, coherent : {TRUE}]

InitOk ==
    /\ cfg \in MmapConfigs
    /\ dev \in OkDevices
    /\ pc = "idle"
    /\ call = [size |-> 1, attrs |-> [NO_KERNEL_MAPPING |-> FALSE],
               blocking |-> TRUE]
    /\ gfp = GFP_NONE
    /\ phys_limit = 0
    /\ page = NoPage
    /\ alog = <<>>
    /\ ret = NoRet
    /\ mem = NoMem
    /\ fr = NoFree
    /\ sgl = <<>>
    /\ mstate = "unmapped"
    /\ slots = [s \in 1..NSlots |-> FALSE]
    /\ slog = <<>>
    /\ sret = Ret("none", 0, 0, FALSE)
    /\ bad_release = FALSE
    /\ mm = NoMmap
    /\ chk = NoChk

NextOk == CoherentOk

SpecOk == InitOk /\ [][NextOk]_vars

(***************************************************************************)
(* Properties.                                                             *)
(***************************************************************************)
Returned == pc \in {"done", "freed"} /\ ret.kind \notin {"null", "none"}

CoherentLimit == min_not_zero(dev.coherent_dma_mask, dev.bus_dma_limit)

\* C1: whenever allocate returns a region, on any path, its bus address A
\* satisfies A + size - 1 <= the device's coherent limit.
C1_AllocReachable ==
    Returned => ret.dma_handle + call.size - 1 <= CoherentLimit

\* The same statement for the regions obtained through
\* __dma_direct_alloc_pages (every path but the atomic pool).
AllocReachableNotPool ==
    (Returned /\ ret.kind # "pool") =>
        ret.dma_handle + call.size - 1 <= CoherentLimit

HasOp(lg, op) == \E j \in 1..Len(lg) : lg[j].op = op
OpsOf(lg, op) == SelectSeq(lg, LAMBDA e : e.op = op)

\* Index of the segment whose mapping failed, 0 if none did.
FailIdx ==
    IF \E i \in 1..Len(sgl) : sgl[i].dma_address = DMA_MAPPING_ERROR
    THEN CHOOSE i \in 1..Len(sgl) :
            /\ sgl[i].dma_address = DMA_MAPPING_ERROR
            /\ \A j \in 1..(i - 1) : sgl[j].dma_address # DMA_MAPPING_ERROR
    ELSE 0

CpuSyncOps == {"arch_sync_dma_for_cpu", "arch_sync_dma_for_cpu_all",
               "swiotlb_tbl_sync_single_for_cpu"}

\* C2: if mapping segment k of an N-segment list fails, then on return
\* exactly the segments before k have been unmapped, each once and in list
\* order, without any CPU-facing sync, and the return value is 0.
C2_PartialFailureUnwinds ==
    (sret.op = "map_sg" /\ FailIdx > 0) =>
        LET u == OpsOf(slog, "dma_direct_unmap_page")
        IN  /\ sret.ret = 0
            /\ Len(u) = FailIdx - 1
            /\ \A j \in 1..Len(u) :
                  u[j].seg = j /\ u[j].addr = sgl[j].dma_address
            /\ \A j \in 1..Len(slog) : slog[j].op \notin CpuSyncOps

C2_Witness ==
    /\ sret.op = "map_sg"
    /\ sret.nents = 3
    /\ FailIdx = 2
    /\ HasOp(slog, "swiotlb_tbl_unmap_single")
    /\ Len(OpsOf(slog, "dma_direct_unmap_page")) = 1

Bounced(i) == is_swiotlb_buffer(dma_to_phys(dev, sgl[i].dma_address))

\* C3: after a successful map of N segments followed by the unmap of the
\* same N segments, and after a failed map alone, every bounce slot the map
\* acquired has been released exactly once and no slot remains held.
C3_RoundTrip ==
    (mstate = "unmapped" /\ sret.op \in {"unmap_sg", "map_sg"}) =>
        /\ \A s \in 1..NSlots : ~slots[s]
        /\ ~bad_release
        /\ sret.op = "unmap_sg" =>
             \A i \in 1..Len(sgl) :
                Bounced(i) =>
                   Cardinality({j \in 1..Len(slog) :
                       /\ slog[j].op = "swiotlb_tbl_unmap_single"
                       /\ slog[j].addr = dma_to_phys(dev, sgl[i].dma_address)}) = 1
        /\ sret.op = "map_sg" =>
             \A s \in 1..NSlots :
                Len(SelectSeq(slog, LAMBDA e :
                        e.op = "swiotlb_tbl_map_single" /\ e.addr = SlotAddr(s)))
                = Len(SelectSeq(slog, LAMBDA e :
                        e.op = "swiotlb_tbl_unmap_single" /\ e.addr = SlotAddr(s)))

C3_Witness ==
    /\ mstate = "unmapped"
    /\ sret.op = "unmap_sg"
    /\ Len(sgl) = 3
    /\ Len(OpsOf(slog, "swiotlb_tbl_unmap_single")) = 2

StreamLimit == min_not_zero(dev.dma_mask, dev.bus_dma_limit)

\* C4: a single streaming map returns the sentinel or a bus address the
\* device can reach; the direct address only if it is reachable and bounce
\* use is not forced, otherwise a bounce address; and the sentinel exactly
\* when the direct address is not usable and no bounce slot was obtained.
C4_MapPageResult ==
    sret.op = "map_page" =>
        LET seg == sgl[1]
            direct == phys_to_dma(dev, seg.page + seg.offset)
            usable == /\ cfg.swiotlb_force # "SWIOTLB_FORCE"
                      /\ direct + seg.length - 1 <= StreamLimit
            held == \E s \in 1..NSlots : slots[s]
        IN  /\ sret.ret # DMA_MAPPING_ERROR =>
                  sret.ret + seg.length - 1 <= StreamLimit
            /\ usable => sret.ret = direct /\ ~held
            /\ (~usable /\ sret.ret # DMA_MAPPING_ERROR) =>
                  /\ held
                  /\ is_swiotlb_buffer(dma_to_phys(dev, sret.ret))
                  /\ slots[SlotOf(dma_to_phys(dev, sret.ret))]
            /\ sret.ret = DMA_MAPPING_ERROR <=> (~usable /\ ~held)

C4_Witness ==
    /\ sret.op = "map_page"
    /\ cfg.swiotlb_force = "SWIOTLB_FORCE"
    /\ sret.ret # DMA_MAPPING_ERROR
    /\ is_swiotlb_buffer(dma_to_phys(dev, sret.ret))
    /\ phys_to_dma(dev, sgl[1].page + sgl[1].offset) + sgl[1].length - 1
          <= StreamLimit

\* C5: in syncForCpu, single-buffer and list form, on a non-coherent device
\* the per-range invalidation of a segment is performed strictly before the
\* bounce copy-back of that segment.
C5_InvalidateBeforeCopyBack ==
    \A j \in 1..Len(slog) :
        slog[j].op = "swiotlb_tbl_sync_single_for_cpu" =>
            /\ ~dev_is_dma_coherent(dev) =>
                  \E i \in 1..(j - 1) :
                      /\ slog[i].op = "arch_sync_dma_for_cpu"
                      /\ slog[i].seg = slog[j].seg
                      /\ slog[i].addr = slog[j].addr
            /\ \A i \in 1..Len(slog) :
                  (slog[i].op = "arch_sync_dma_for_cpu"
                      /\ slog[i].seg = slog[j].seg) => i < j

C5_Witness ==
    /\ sret.op = "sync_sg_for_cpu"
    /\ ~dev_is_dma_coherent(dev)
    /\ Len(sgl) = 3
    /\ Len(OpsOf(slog, "swiotlb_tbl_sync_single_for_cpu")) = 2

Rank(g) == IF g = GFP_DMA THEN 0 ELSE IF g = GFP_DMA32 THEN 1 ELSE 2

\* The zone classes handed to the general page allocator, in call order.
ZonesTried == OpsOf(alog, "alloc_pages_node")

\* C6 as stated: each retry uses the next-wider zone class than the previous
\* attempt, and a narrower class is never selected after a wider one.
C6_WiderEachRetry ==
    \A i \in 1..(Len(ZonesTried) - 1) :
        Rank(ZonesTried[i + 1].gfp) = Rank(ZonesTried[i].gfp) + 1

\* C6 amended: within one allocate call each retry uses a strictly narrower
\* zone class than the previous attempt, so a wider class is never selected
\* after a narrower one has been tried.
C6_NarrowerEachRetry ==
    \A i \in 1..(Len(ZonesTried) - 1) :
        Rank(ZonesTried[i + 1].gfp) < Rank(ZonesTried[i].gfp)

C6_Witness ==
    /\ Len(ZonesTried) = 3
    /\ ZonesTried[1].gfp = GFP_NONE
    /\ ZonesTried[3].gfp = GFP_DMA

\* C7: every successful allocate returns a region whose full page-rounded
\* extent is zeroed, on every success path.
C7_FullyZeroed ==
    Returned => mem.zeroed = PAGE_ALIGN(call.size)

\* C8: free mirrors allocate: it marks the region encrypted iff allocate
\* marked it decrypted, over the same page count, removes a virtual alias
\* iff allocate created one, and returns the pages where they came from.
C8_FreeMirrorsAlloc ==
    pc = "freed" =>
        /\ fr.encrypted = mem.decrypted
        /\ fr.vunmap <=> mem.alias
        /\ (fr.to = "pool") <=> (ret.kind = "pool")
        /\ fr.page = ret.page

\* The same statement without the encryption mark.
FreeMirrorsAllocButEncryption ==
    pc = "freed" =>
        /\ fr.vunmap <=> mem.alias
        /\ (fr.to = "pool") <=> (ret.kind = "pool")
        /\ fr.page = ret.page

HighMemNoRemap ==
    /\ pc = "done"
    /\ page # NoPage
    /\ PageHighMem(page)
    /\ ~cfg.DMA_REMAP
    /\ ~cfg.DMA_DIRECT_REMAP

\* C9 as stated: when no remap facility is available and the obtained page
\* is high-memory, allocate releases the page and returns failure.
C9_HighMemAlwaysFails ==
    HighMemNoRemap => ret.kind = "null"

CookiePath == call.attrs.NO_KERNEL_MAPPING /\ ~force_dma_unencrypted(dev)

\* C9 amended: when no remap facility is available, the obtained page is
\* high-memory and the call does not return the page as the opaque
\* no-kernel-mapping cookie, allocate releases the page and returns failure
\* without trying another source; and allocate never returns a CPU address
\* for a high-memory page that has no remapped alias.
C9_HighMemFailsUnlessCookie ==
    /\ (HighMemNoRemap /\ ~CookiePath) =>
          /\ ret.kind = "null"
          /\ alog[Len(alog)].op = "dma_free_contiguous"
          /\ alog[Len(alog)].page = page
          /\ Len(SelectSeq(alog, LAMBDA e : e.op = "dma_free_contiguous"
                                             /\ e.page = page)) = 1
    /\ (Returned /\ ret.kind \in {"lowmem", "uncached"}) => ~PageHighMem(ret.page)

C9_Witness ==
    /\ HighMemNoRemap
    /\ ~CookiePath
    /\ ret.kind = "null"
    /\ alog[1].op = "dma_alloc_contiguous"
    /\ alog[1].page = page

\* C10: dma_direct_mmap populates user page-table entries only when
\* page offset < count and user page count <= count - offset, count being
\* the page-rounded size in pages; otherwise it fails with -ENXIO and
\* populates nothing, whatever the unsigned offset and page count.
C10_MmapBounds ==
    mm.called =>
        LET count == (mm.size + PAGE_SIZE - 1) \div PAGE_SIZE
            inside == mm.pgoff < count /\ mm.pgoff + mm.user_count <= count
        IN  /\ mm.remap => inside
            /\ (~mm.handled /\ ~inside) => (mm.ret = "-ENXIO" /\ ~mm.remap)
            /\ (~mm.handled /\ cfg.MMU /\ inside) => mm.remap

C10_Witness ==
    /\ mm.called
    /\ ~mm.handled
    /\ mm.pgoff + mm.user_count >= U64
    /\ mm.pgoff < (mm.size + PAGE_SIZE - 1) \div PAGE_SIZE
    /\ mm.ret = "-ENXIO"
    /\ ~mm.remap

\* The physical address of the coherent mask combined with the bus limit.
PhysicalLimit ==
    LET l == CoherentLimit
        raw == (l + dev.dma_pfn_offset * PAGE_SIZE) % U64
    IN  IF dev.unencrypted \/ cfg.sme_me_mask = 0 \/ raw < SmeBit THEN raw
        ELSE raw - SmeBit

\* C11: the zone class tried first by allocate is the narrowest tier whose
\* maximum address is >= physicalLimit: the zone-threshold tier when
\* physicalLimit <= 2^zone_dma_bits - 1, else the 32-bit tier when
\* physicalLimit <= 2^32 - 1, else unrestricted.
C11_FirstZone ==
    (Len(alog) >= 1 /\ alog[1].op = "dma_alloc_contiguous") =>
        /\ phys_limit = PhysicalLimit
        /\ alog[1].gfp =
              IF PhysicalLimit <= Pow2(zone_dma_bits) - 1 THEN GFP_DMA
              ELSE IF PhysicalLimit <= Pow2(Bits32) - 1 THEN GFP_DMA32
              ELSE GFP_NONE
        /\ \A j \in 1..Len(alog) :
              (alog[j].op = "alloc_pages_node"
                 /\ \A i \in 1..(j - 1) : alog[i].op # "alloc_pages_node")
              => alog[j].gfp = alog[1].gfp

C11_Witness ==
    /\ Len(alog) >= 2
    /\ alog[1].op = "dma_alloc_contiguous"
    /\ alog[2].op = "alloc_pages_node"
    /\ phys_limit = Pow2(Bits32) - 1
    /\ alog[2].gfp = GFP_DMA32

ChkBusAddr == phys_to_dma_direct(dev, chk.phys)

\* C12 as stated: dma_coherent_ok returns true if and only if
\* busAddress + size - 1 <= min(coherentMask, busLimit), for every bus
\* address, size, mask and bus limit, a bus limit of 0 and sums that exceed
\* the machine's width included.
C12_OkIffWithinMin ==
    chk.called =>
        (chk.result <=>
            ChkBusAddr + chk.size - 1
                <= Min(dev.coherent_dma_mask, dev.bus_dma_limit))

\* C12 amended: dma_coherent_ok returns true if and only if
\* (busAddress + size - 1) modulo 2^width <= the coherent limit, the limit
\* being the coherent mask when the bus limit is 0 (no bus limit), and the
\* smaller of the two otherwise.
C12_OkIffWithinLimitModulo ==
    chk.called =>
        LET limit == IF dev.bus_dma_limit = 0 THEN dev.coherent_dma_mask
                     ELSE IF dev.coherent_dma_mask = 0 THEN dev.bus_dma_limit
                     ELSE IF dev.bus_dma_limit < dev.coherent_dma_mask
                          THEN dev.bus_dma_limit
                     ELSE dev.coherent_dma_mask
            last == (ChkBusAddr + chk.size - 1 + U64) % U64
        IN  chk.result <=> last <= limit

C12_Witness ==
    /\ chk.called
    /\ dev.bus_dma_limit = 0
    /\ chk.result
    /\ ChkBusAddr + chk.size - 1 >= U64

\* Number of events of slog with this operation on this segment.
CountOp(op, seg) ==
    Cardinality({j \in 1..Len(slog) : slog[j].op = op /\ slog[j].seg = seg})

\* C13: in syncForDevice, single-buffer and list form, the copy into the
\* bounce slot of a staged segment happens before the device-facing flush of
\* that segment, the flush is issued only (and then once per segment) when
\* the device is non-coherent, and the segments are processed in list order.
C13_SyncForDeviceOrder ==
    sret.op \in {"sync_single_for_device", "sync_sg_for_device"} =>
        /\ \A i \in 1..Len(sgl) :
              LET paddr == dma_to_phys(dev, sgl[i].dma_address)
              IN  /\ CountOp("swiotlb_tbl_sync_single_for_device", i)
                        = IF Bounced(i) THEN 1 ELSE 0
                  /\ CountOp("arch_sync_dma_for_device", i)
                        = IF dev_is_dma_coherent(dev) THEN 0 ELSE 1
                  /\ \A j \in 1..Len(slog) : slog[j].seg = i => slog[j].addr = paddr
        /\ \A j, k \in 1..Len(slog) :
              /\ slog[j].seg \in 1..Len(sgl)
              /\ j < k => slog[j].seg <= slog[k].seg
              /\ (/\ slog[j].op = "swiotlb_tbl_sync_single_for_device"
                  /\ slog[k].op = "arch_sync_dma_for_device"
                  /\ slog[j].seg = slog[k].seg) => j < k

C13_Witness ==
    /\ sret.op = "sync_sg_for_device"
    /\ ~dev_is_dma_coherent(dev)
    /\ Len(sgl) = 3
    /\ Len(OpsOf(slog, "swiotlb_tbl_sync_single_for_device")) = 2
    /\ Len(OpsOf(slog, "arch_sync_dma_for_device")) = 3

\* C14: every release of pages performed inside allocate (after an
\* unreachable contiguous-pool result, after an unreachable general-allocator
\* result, after a failed remap, on high-memory rejection) passes the same
\* page-aligned size that was used to obtain those pages.
C14_ReleaseSizeMatchesObtain ==
    \A j \in 1..Len(alog) :
        alog[j].op = "dma_free_contiguous" =>
            /\ alog[j].size = PAGE_ALIGN(call.size)
            /\ \E i \in 1..(j - 1) :
                  /\ alog[i].op \in {"dma_alloc_contiguous", "alloc_pages_node"}
                  /\ alog[i].page = alog[j].page
                  /\ alog[i].size = alog[j].size

\* Pages obtained by the allocate call so far, and pages it gave back.
Obtained ==
    Len(SelectSeq(alog, LAMBDA e :
            e.op \in {"dma_alloc_contiguous", "alloc_pages_node"}
            /\ e.page # NoPage))
Released == Len(OpsOf(alog, "dma_free_contiguous"))

LoopOver == pc \in {"post", "done", "freed"} /\ ~HasOp(alog, "dma_alloc_from_pool")

\* C15: the zone-fallback loop terminates: the general page allocator is
\* called at most three times per allocate call, no zone class is tried
\* twice, and when the last tier's result is unreachable or any attempt
\* returns no page the call returns failure with no page left held.
C15_LadderTerminates ==
    LET z == ZonesTried
        n == Len(z)
    IN  /\ n <= 3
        /\ pc = "again" => n <= 2
        /\ \A i, j \in 1..n : i # j => z[i].gfp # z[j].gfp
        /\ \A i \in 1..n : z[i].page = NoPage => i = n /\ pc # "again"
        /\ (LoopOver /\ n >= 1
              /\ (z[n].page = NoPage \/ ~dma_coherent_ok(dev, z[n].page, call.size)))
           => /\ page = NoPage
              /\ Obtained = Released
              /\ pc = "done" => ret.kind = "null"

C15_Witness ==
    /\ pc = "done"
    /\ Len(ZonesTried) = 3
    /\ ZonesTried[3].page # NoPage
    /\ ret.kind = "null"
    /\ Released = 3

\* C16 as stated: after an unreachable result has been released, allocate
\* retries both the contiguous-reservation pool and the general page
\* allocator at the next zone class, at every tier of the ladder.
C16_RetryBothAllocators ==
    \A j \in 1..Len(alog) :
        (alog[j].op = "alloc_pages_node"
            /\ \E i \in 1..(j - 1) : alog[i].op = "alloc_pages_node")
        => \E i \in 1..(j - 1) :
              /\ alog[i].op = "dma_alloc_contiguous"
              /\ alog[i].gfp = alog[j].gfp

\* C16 amended: the contiguous-reservation pool is consulted once per allocate
\* call, first and at the initial zone class.  After an unreachable
\* contiguous-pool result has been released the general page allocator is
\* tried at the same zone class; after an unreachable general-allocator
\* result has been released only the general page allocator is retried, at
\* the next zone class of the ladder, and so at every tier.
C16_RetryGeneralAllocatorOnly ==
    /\ \A j \in 1..Len(alog) : alog[j].op = "dma_alloc_contiguous" => j = 1
    /\ \A j \in 2..(Len(alog) - 1) :
          alog[j].op = "dma_free_contiguous" =>
              /\ alog[j + 1].op = "alloc_pages_node"
              /\ IF alog[j - 1].op = "dma_alloc_contiguous"
                 THEN alog[j + 1].gfp = alog[j - 1].gfp
                 ELSE /\ alog[j - 1].op = "alloc_pages_node"
                      /\ alog[j + 1].gfp # alog[j - 1].gfp
                      /\ alog[j + 1].gfp = FallbackGfp(alog[j - 1].gfp, phys_limit)
    /\ (pc = "again" /\ Len(alog) >= 1
          /\ alog[Len(alog)].op = "dma_free_contiguous"
          /\ Len(ZonesTried) >= 1) => gfp # ZonesTried[Len(ZonesTried)].gfp

C16_Witness ==
    /\ pc = "post"
    /\ Len(alog) = 6
    /\ alog[1].op = "dma_alloc_contiguous"
    /\ alog[2].op = "dma_free_contiguous"
    /\ alog[3].op = "alloc_pages_node"
    /\ alog[4].op = "dma_free_contiguous"
    /\ alog[5].op = "alloc_pages_node"
    /\ alog[6].op = "dma_free_contiguous"

\* C17: a mapList call in which every segment maps successfully returns N,
\* the number of segments supplied, has mapped the segments one at a time in
\* index order, and leaves each segment i with the bus address produced by
\* mapping segment i and a mapped length equal to its input length.
C17_MapSgAllSucceed ==
    (sret.op = "map_sg" /\ FailIdx = 0) =>
        LET m == OpsOf(slog, "dma_direct_map_page")
            N == sret.nents
        IN  /\ sret.ret = N
            /\ Len(sgl) = N
            /\ Len(m) = N
            /\ ~HasOp(slog, "dma_direct_unmap_page")
            /\ \A i \in 1..N :
                  LET direct == phys_to_dma(dev, sgl[i].page + sgl[i].offset)
                      staged == {j \in 1..Len(slog) :
                                    /\ slog[j].op = "swiotlb_tbl_map_single"
                                    /\ slog[j].seg = i}
                  IN  /\ m[i].seg = i
                      /\ m[i].addr = sgl[i].page + sgl[i].offset
                      /\ sgl[i].dma_length = sgl[i].length
                      /\ Cardinality(staged) <= 1
                      /\ IF staged = {}
                         THEN sgl[i].dma_address = direct
                         ELSE \A j \in staged :
                                 /\ sgl[i].dma_address = __phys_to_dma(dev, slog[j].addr)
                                 /\ slots[SlotOf(slog[j].addr)]

C17_Witness ==
    /\ sret.op = "map_sg"
    /\ sret.ret = 3
    /\ Len(OpsOf(slog, "swiotlb_tbl_map_single")) = 2
    /\ Bounced(1) /\ ~Bounced(2) /\ Bounced(3)
    /\ sgl[1].length # sgl[3].length

\* Positions of the events of slog with this operation.
PosOf(op) == {j \in 1..Len(slog) : slog[j].op = op}

\* C18: in the list form of syncForCpu on a non-coherent device the
\* architecture-wide invalidate is issued exactly once per call, after the
\* last segment's per-range invalidate and bounce copy-back; in the
\* single-buffer form it precedes the copy-back; on a coherent device it is
\* never issued.
C18_ArchWideInvalidateOnceLast ==
    /\ sret.op = "sync_sg_for_cpu" =>
          IF dev_is_dma_coherent(dev)
          THEN PosOf("arch_sync_dma_for_cpu_all") = {}
               /\ PosOf("arch_sync_dma_for_cpu") = {}
          ELSE /\ PosOf("arch_sync_dma_for_cpu_all") = {Len(slog)}
               /\ \A i \in 1..Len(sgl) :
                     /\ CountOp("arch_sync_dma_for_cpu", i) = 1
                     /\ CountOp("swiotlb_tbl_sync_single_for_cpu", i)
                           = IF Bounced(i) THEN 1 ELSE 0
               /\ \A j \in PosOf("arch_sync_dma_for_cpu")
                         \cup PosOf("swiotlb_tbl_sync_single_for_cpu") :
                     j < Len(slog)
    /\ sret.op = "sync_single_for_cpu" =>
          IF dev_is_dma_coherent(dev)
          THEN PosOf("arch_sync_dma_for_cpu_all") = {}
          ELSE /\ Cardinality(PosOf("arch_sync_dma_for_cpu_all")) = 1
               /\ \A j \in PosOf("arch_sync_dma_for_cpu_all"),
                     k \in PosOf("swiotlb_tbl_sync_single_for_cpu") : j < k

C18_Witness ==
    /\ sret.op = "sync_sg_for_cpu"
    /\ ~dev_is_dma_coherent(dev)
    /\ Len(sgl) = 3
    /\ Bounced(3)
    /\ Len(slog) = 6
    /\ slog[5].op = "swiotlb_tbl_sync_single_for_cpu"
    /\ slog[6].op = "arch_sync_dma_for_cpu_all"

\* C19: a single unmap performs the CPU-facing sync before it releases the
\* bounce slot; with the skip-CPU-sync attribute the sync is omitted but the
\* bounce slot is still released; and the bounce slot is released if and
\* only if the mapped address lies in the bounce pool.  The list form does
\* the same for each of its segments.
C19_UnmapSyncThenRelease ==
    sret.op \in {"unmap_page", "unmap_sg"} =>
        \A i \in 1..Len(sgl) :
            LET paddr == dma_to_phys(dev, sgl[i].dma_address)
                rel == {j \in PosOf("swiotlb_tbl_unmap_single") : slog[j].seg = i}
                syn == {j \in 1..Len(slog) :
                           slog[j].op \in CpuSyncOps /\ slog[j].seg = i}
            IN  /\ Cardinality(rel) = IF is_swiotlb_buffer(paddr) THEN 1 ELSE 0
                /\ \A j \in rel : slog[j].addr = paddr /\ ~slots[SlotOf(paddr)]
                /\ sret.skip => syn = {}
                /\ ~sret.skip =>
                      /\ CountOp("arch_sync_dma_for_cpu", i)
                            = IF dev_is_dma_coherent(dev) THEN 0 ELSE 1
                      /\ CountOp("swiotlb_tbl_sync_single_for_cpu", i)
                            = IF is_swiotlb_buffer(paddr) THEN 1 ELSE 0
                      /\ \A j \in syn, k \in rel : j < k

C19_Witness ==
    /\ sret.op = "unmap_page"
    /\ ~sret.skip
    /\ ~dev_is_dma_coherent(dev)
    /\ Bounced(1)
    /\ Len(slog) = 5
    /\ slog[4].op = "swiotlb_tbl_sync_single_for_cpu"
    /\ slog[5].op = "swiotlb_tbl_unmap_single"

\* The same call with the skip-CPU-sync attribute: no sync, slot released.
UnmapSkipReleases ==
    /\ sret.op = "unmap_page"
    /\ sret.skip
    /\ Bounced(1)
    /\ Len(slog) = 2
    /\ slog[2].op = "swiotlb_tbl_unmap_single"

DeviceSyncOps == {"arch_sync_dma_for_device", "swiotlb_tbl_sync_single_for_device"}

\* C20: a single streaming map that returns the invalid-mapping sentinel has
\* performed no device-facing cache maintenance and holds no bounce slot; a
\* successful map performs the device-facing flush exactly when the device is
\* non-coherent and the skip-CPU-sync attribute is absent, and applies it to
\* the physical address the device will access: the bounce slot when one was
\* substituted, the caller's buffer otherwise.
C20_MapPageFrame ==
    sret.op = "map_page" =>
        LET orig == sgl[1].page + sgl[1].offset
            flush == PosOf("arch_sync_dma_for_device")
            staged == PosOf("swiotlb_tbl_map_single")
        IN  IF sret.ret = DMA_MAPPING_ERROR
            THEN /\ \A j \in 1..Len(slog) : slog[j].op \notin DeviceSyncOps
                 /\ \A s \in 1..NSlots : ~slots[s]
                 /\ Cardinality(staged)
                       = Cardinality(PosOf("swiotlb_tbl_unmap_single"))
            ELSE /\ Cardinality(flush)
                       = IF ~dev_is_dma_coherent(dev) /\ ~sret.skip THEN 1 ELSE 0
                 /\ \A j \in flush :
                       /\ j = Len(slog)
                       /\ slog[j].addr = dma_to_phys(dev, sret.ret)
                       /\ IF staged = {}
                          THEN slog[j].addr = orig
                          ELSE /\ is_swiotlb_buffer(slog[j].addr)
                               /\ slog[j].addr # orig
                               /\ \A k \in staged : slog[k].addr = slog[j].addr

C20_Witness ==
    /\ sret.op = "map_page"
    /\ sret.ret # DMA_MAPPING_ERROR
    /\ ~dev_is_dma_coherent(dev)
    /\ ~sret.skip
    /\ Bounced(1)
    /\ slog[Len(slog)].op = "arch_sync_dma_for_device"
    /\ is_swiotlb_buffer(slog[Len(slog)].addr)

====
